---------------------------- MODULE Spec2Model ----------------------------
(***************************************************************************)
(* A model of two parts of Gowut:                                          *)
(*   - the ListBox component (gwu/listbox.go): the selection vector and    *)
(*     the operations that change it, with Go's slice indexing faults;     *)
(*   - the client runtime of gwu/sess_monitor.go (the static JavaScript):  *)
(*     the timer table, the session monitor, the event response            *)
(*     processing, the component re-render and the event sender se().      *)
(* The server side the client talks to (the component registry, the set    *)
(* of dirty components and the event dispatcher) is modelled from the      *)
(* specification, as its Go code is not part of the two files.             *)
(* Strings are sequences of one-character strings, so that splitting,      *)
(* strconv.Atoi and parseInt are computed as the code computes them.       *)
(***************************************************************************)
EXTENDS Integers, Sequences, FiniteSets, TLC

(***************************************************************************)
(* Bounds of the model.                                                    *)
(***************************************************************************)
\* Longest list of values a ListBox is created with.
MaxValues == 3
\* Longest slice handed to SetSelectedIndices.
MaxIndices == 2
\* Most tokens of a submitted value that no select element produced.
MaxTokens == 2

(***************************************************************************)
(* Strings.                                                                *)
(***************************************************************************)
Digits == <<"0", "1", "2", "3", "4", "5", "6", "7", "8", "9">>

IsDigit(c) == \E d \in 1..10 : Digits[d] = c

DigitVal(c) == (CHOOSE d \in 1..10 : Digits[d] = c) - 1

\* The value of a sequence of decimal digits.
DigitsVal(ds) ==
    LET F[k \in 0..Len(ds)] ==
            IF k = 0 THEN 0 ELSE F[k - 1] * 10 + DigitVal(ds[k])
    IN  F[Len(ds)]

\* A split that stops at the first separator: at most two tokens.
SplitOnce(s, sep) ==
    IF \E k \in 1..Len(s) : s[k] = sep
    THEN LET k == CHOOSE x \in 1..Len(s) :
                      s[x] = sep /\ \A y \in 1..(x - 1) : s[y] # sep
         IN  <<SubSeq(s, 1, k - 1), SubSeq(s, k + 1, Len(s))>>
    ELSE <<s>>

\* strings.Split(s, sep) and String.prototype.split(sep) for a one-character
\* separator: the empty string gives one empty token.
Split(s, sep) ==
    LET F[k \in 0..Len(s)] ==
            IF k = 0 THEN << <<>> >>
            ELSE LET toks == F[k - 1]
                 IN  IF s[k] = sep THEN Append(toks, <<>>)
                     ELSE [toks EXCEPT ![Len(toks)] = Append(@, s[k])]
    IN  F[Len(s)]

\* strconv.Atoi: an optional sign, then one or more decimal digits.
Atoi(tok) ==
    LET signed == Len(tok) > 0 /\ tok[1] \in {"+", "-"}
        body   == IF signed THEN Tail(tok) ELSE tok
    IN  IF Len(body) = 0 \/ \E k \in 1..Len(body) : ~IsDigit(body[k])
        THEN [err |-> TRUE, val |-> 0]
        ELSE [err |-> FALSE,
              val |-> IF tok[1] = "-" THEN 0 - DigitsVal(body) ELSE DigitsVal(body)]

\* The decimal text of a non-negative integer (JavaScript's number to string
\* conversion in  selected += i + ",").
RECURSIVE NatToStr(_)
NatToStr(n) ==
    IF n < 10 THEN <<Digits[n + 1]>>
    ELSE NatToStr(n \div 10) \o <<Digits[(n % 10) + 1]>>

(***************************************************************************)
(* ListBox (gwu/listbox.go).                                               *)
(***************************************************************************)
VARIABLES
    values,     \* listBoxImpl.values
    multi,      \* listBoxImpl.multi
    selected,   \* listBoxImpl.selected
    rows,       \* listBoxImpl.rows
    lbFault,    \* the last ListBox call ended in a runtime panic
    lbLast      \* the last ListBox call: its name and its input

lbVars == <<values, multi, selected, rows, lbFault, lbLast>>

AllValues == <<"a", "b", "c", "d", "e">>

\* make([]bool, len(values))
AllFalse(n) == [i \in 1..n |-> FALSE]

\* A Go index expression c.selected[idx]: in range or a runtime panic.
InRange(sel, idx) == 0 <= idx /\ idx < Len(sel)

\* SelectedValue(): the first selected value, "" if none.
SelectedValue(vals, sel) ==
    IF \E i \in 1..Len(sel) : sel[i]
    THEN vals[CHOOSE i \in 1..Len(sel) : sel[i] /\ \A j \in 1..(i - 1) : ~sel[j]]
    ELSE ""

\* SelectedIndices(): the indices (from 0) of the selected values, in the
\* order of the range loop.
SelectedIndices(sel) ==
    LET F[k \in 0..Len(sel)] ==
            IF k = 0 THEN <<>>
            ELSE IF sel[k] THEN Append(F[k - 1], k - 1) ELSE F[k - 1]
    IN  F[Len(sel)]

\* SelectedValues()
SelectedValues(vals, sel) ==
    LET si == SelectedIndices(sel)
    IN  [k \in 1..Len(si) |-> vals[si[k] + 1]]

\* ClearSelected clearing the flag of the first selected value only.
ClearSelectedFirstOnly(sel) ==
    [i \in 1..Len(sel) |-> sel[i] /\ \E k \in 1..(i - 1) : sel[k]]

\* The body of ClearSelected.
ClearSelectedOp(sel) == [i \in 1..Len(sel) |-> FALSE]

\* The body of SetSelected: one index expression.
SetSelectedOp(sel, i, s) ==
    IF InRange(sel, i)
    THEN [selected |-> [sel EXCEPT ![i + 1] = s], fault |-> FALSE]
    ELSE [selected |-> sel, fault |-> TRUE]

\* The second loop of SetSelectedIndices, from position k of indices: it
\* stops with a panic at the first index out of range.
RECURSIVE SelectLoop(_, _, _)
SelectLoop(sel, indices, k) ==
    IF k > Len(indices) THEN [selected |-> sel, fault |-> FALSE]
    ELSE IF ~InRange(sel, indices[k]) THEN [selected |-> sel, fault |-> TRUE]
    ELSE SelectLoop([sel EXCEPT ![indices[k] + 1] = TRUE], indices, k + 1)

\* SetSelectedIndices without its first loop: nothing is deselected.
SetSelectedIndicesNoClear(sel, indices) ==
    SelectLoop(sel, indices, 1)

\* The body of SetSelectedIndices: clear, then select.
SetSelectedIndicesOp(sel, indices) ==
    SelectLoop(ClearSelectedOp(sel), indices, 1)

\* The loop of preprocessEvent over the tokens of the value, from token k: a
\* token Atoi rejects is skipped, an index out of range panics.
RECURSIVE TokenLoop(_, _, _)
TokenLoop(sel, toks, k) ==
    IF k > Len(toks) THEN [selected |-> sel, fault |-> FALSE]
    ELSE LET a == Atoi(toks[k])
         IN  IF a.err THEN TokenLoop(sel, toks, k + 1)
             ELSE IF ~InRange(sel, a.val) THEN [selected |-> sel, fault |-> TRUE]
             ELSE TokenLoop([sel EXCEPT ![a.val + 1] = TRUE], toks, k + 1)

\* The body of preprocessEvent for the submitted value.
PreprocessEventOp(sel, value) ==
    IF Len(value) = 0 THEN [selected |-> sel, fault |-> FALSE]
    ELSE TokenLoop(ClearSelectedOp(sel), Split(value, ","), 1)

\* selIdxs(select): the value the client submits for a select element whose
\* options have the selection states opts.
SelIdxs(opts) ==
    LET F[k \in 0..Len(opts)] ==
            IF k = 0 THEN <<>>
            ELSE IF opts[k] THEN F[k - 1] \o NatToStr(k - 1) \o <<",">>
            ELSE F[k - 1]
    IN  F[Len(opts)]

\* Inputs: the indices handed to SetSelected and SetSelectedIndices, in range
\* and just outside it on both sides.
IndexInputs == (0 - 1)..MaxValues

IndexSlices == UNION {[1..k -> IndexInputs] : k \in 0..MaxIndices}

\* Inputs: the tokens of a submitted value that no select element produced.
Tokens == {<<"x">>, <<"-", "1">>, <<"1">>, <<"7">>}

RECURSIVE JoinStr(_, _)
JoinStr(toks, sep) ==
    IF Len(toks) = 0 THEN <<>>
    ELSE IF Len(toks) = 1 THEN toks[1]
    ELSE toks[1] \o <<sep>> \o JoinStr(Tail(toks), sep)

TokenLists == UNION {[1..k -> Tokens] : k \in 1..MaxTokens}

\* Inputs: the row counts handed to SetRows, a dropdown list and a list box.
RowInputs == {1, 4}

(***************************************************************************)
(* The client runtime (the static JavaScript of gwu/sess_monitor.go).      *)
(***************************************************************************)
VARIABLES
    dom,          \* the document: component id -> its element, or NoNode
    focused,      \* the component whose element is document.activeElement, 0 if none
    timers,       \* the timers object: component id -> timer object, or Null
    pending,      \* the browser's timers that are set and not cleared
    nextTimerId,  \* the next handle setInterval or setTimeout returns
    chk,          \* the session check the last step completed, if any
    tmLast,       \* component id -> the arguments of its last setupTimer call
    sessLeft,     \* server: the seconds the session has left
    erPhase,      \* procEresp: "idle", "run" (in its loop) or "done"
    erText,       \* procEresp: xmlhttp.responseText
    erDirs,       \* server: the directives it encoded in that response
    erI,          \* procEresp: i
    erJ,          \* procEresp: j
    inflight,     \* the re-render requests sent and not answered
    rr,           \* the re-render answer the last step handled, if any
    log,          \* what procEresp has done so far, in order
    calls,        \* the calls of rerenderComp, checkSession and focusComp the
                  \* last step made, in order, with what each found and did
    loaded        \* window.onload has fired

clVars == <<dom, focused, timers, pending, nextTimerId, chk, tmLast, sessLeft,
            erPhase, erText, erDirs, erI, erJ, inflight, rr, log, calls,
            loaded>>

(***************************************************************************)
(* The server side of a session: component registry, Dirty Tracker and     *)
(* Event Dispatcher.                                                       *)
(***************************************************************************)
VARIABLES
    registry,     \* the ids of the live components of the session
    allocated,    \* the number of ids allocate() has returned: 1..allocated
    dirty,        \* the Dirty Tracker: the set of ids marked dirty
    marks,        \* the ids of the markDirty calls made since the last drain
    drained,      \* the drain the last step made, if any
    disp          \* the dispatch in progress or last returned

srvVars == <<registry, allocated, dirty, marks, drained, disp>>

(***************************************************************************)
(* The client's event submission (se).                                     *)
(***************************************************************************)
VARIABLES
    seEvent,      \* the DOM event of the last se() call
    seData        \* what that call submitted

seVars == <<seEvent, seData>>

vars == <<lbVars, clVars, srvVars, seVars>>

\* The component ids of the page: the session monitor and another component.
MonitorId == 1

Comps == {MonitorId, 2}

\* Most timers the browser is asked for in one behaviour.
MaxTimerIds == 3

\* xmlhttp.status == 200
StatusOK == 200

\* The event response action codes (gwu's eraNoAction, eraReloadWin,
\* eraDirtyComps, eraFocusComp).
EraNoAction == 0

EraReloadWin == 1

EraDirtyComps == 2

EraFocusComp == 3

\* Texts the client sets or shows.
StrExpired == <<"E", "x", "p", "i", "r", "e", "d", "!">>

StrLessThanMin == <<"<", "1", " ", "m", "i", "n">>

StrMin == <<" ", "m", "i", "n">>

StrNaN == <<"N", "a", "N">>

IsSpace(c) == c = " "

\* parseInt(s): leading white space is skipped, then an optional sign and the
\* longest run of decimal digits; NaN when there is no digit.  (No text of
\* the model starts with 0x, which parseInt reads as hexadecimal.)
ParseInt(s) ==
    LET skip   == CHOOSE k \in 0..Len(s) :
                      /\ \A m \in 1..k : IsSpace(s[m])
                      /\ k < Len(s) => ~IsSpace(s[k + 1])
        rest   == SubSeq(s, skip + 1, Len(s))
        signed == Len(rest) > 0 /\ rest[1] \in {"+", "-"}
        body   == IF signed THEN Tail(rest) ELSE rest
        run    == CHOOSE k \in 0..Len(body) :
                      /\ \A m \in 1..k : IsDigit(body[m])
                      /\ k < Len(body) => ~IsDigit(body[k + 1])
        v      == DigitsVal(SubSeq(body, 1, run))
    IN  IF run = 0 THEN [nan |-> TRUE, val |-> 0]
        ELSE [nan |-> FALSE, val |-> IF rest[1] = "-" THEN 0 - v ELSE v]

\* A number that parseInt returned is one of the action codes (the switch
\* compares with ===).
IsCode(r, code) == ~r.nan /\ r.val = code

\* The text of a number, as getElementById(compId) sees a number argument.
NumToStr(r) ==
    IF r.nan THEN StrNaN
    ELSE IF r.val < 0 THEN <<"-">> \o NatToStr(0 - r.val)
    ELSE NatToStr(r.val)

\* An element of the document.  rev is 0 for the markup of the page and 1
\* for markup a re-render put in; expired and label are the session
\* monitor's class gwu-SessMonitor-Expired and the text of its first child.
NoNode == [present |-> FALSE, rev |-> 0, expired |-> FALSE, label |-> <<>>]

FreshNode(rev) == [present |-> TRUE, rev |-> rev, expired |-> FALSE, label |-> <<>>]

Null == [null |-> TRUE]

NoCheck == [done |-> FALSE, comp |-> 0, secs |-> 0]

NoSetup == [called |-> FALSE]

\* The JavaScript a timer runs.
CheckSessionJs(c) == [fn |-> "checkSession", arg |-> c]

OtherJs(k) == [fn |-> "other", arg |-> k]

\* The script element sessMonitorImpl.Render writes:
\* setupTimer(id,"checkSession(id)",60000,true,true,false);checkSession(id);
MonitorScript(c) ==
    << [fn |-> "setupTimer", compId |-> c, js |-> CheckSessionJs(c),
        timeout |-> 60 * 1000, repeat |-> TRUE, active |-> TRUE, reset |-> FALSE],
       CheckSessionJs(c) >>

\* The markup of a component: what of it the client acts on is its scripts.
Render(c) ==
    [empty |-> FALSE, scripts |-> IF c = MonitorId THEN MonitorScript(c) ELSE <<>>]

EmptyBody == [empty |-> TRUE, scripts |-> <<>>]

\* The browser state the JavaScript functions read and write.
Window == [dom |-> dom, focused |-> focused, timers |-> timers,
           pending |-> pending, nextTimerId |-> nextTimerId, chk |-> NoCheck,
           tmLast |-> tmLast, calls |-> <<>>]

\* document.getElementById(id) for the text of an id: the component whose
\* element carries it, 0 when there is none.
GetElementById(w, idStr) ==
    IF \E c \in Comps : w.dom[c].present /\ NatToStr(c) = idStr
    THEN CHOOSE c \in Comps : w.dom[c].present /\ NatToStr(c) = idStr
    ELSE 0

\* A call of rerenderComp, checkSession or focusComp: the text of its compId,
\* whether getElementById found an element, whether it sent a request to the
\* server, and whether it raised an error.
Call(fn, idStr, found, sent, error) ==
    [fn |-> fn, id |-> idStr, found |-> found, sent |-> sent, error |-> error]

\* focusComp(compId) for a compId that is not null.
FocusComp(w, idStr) ==
    LET e  == GetElementById(w, idStr)
        w1 == [w EXCEPT !.calls = Append(@, Call("focusComp", idStr, e # 0,
                                                 FALSE, FALSE))]
    IN  IF e # 0 THEN [w1 EXCEPT !.focused = e] ELSE w1

\* rerenderComp(compId) up to its xmlhttp.send: the request is sent only if
\* the element exists.
RerenderComp(w, idStr) ==
    LET e == GetElementById(w, idStr)
    IN  [w EXCEPT !.calls = Append(@, Call("rerenderComp", idStr, e # 0, e # 0,
                                           FALSE))]

\* document.activeElement.id
ActiveElementId(w) == IF w.focused = 0 THEN <<>> ELSE NatToStr(w.focused)

\* clearInterval(id) and clearTimeout(id)
ClearTimer(w, id) == [w EXCEPT !.pending = {t \in @ : t.id # id}]

\* setupTimer without its clearInterval and clearTimeout: a timer that is
\* replaced or switched off stays set in the browser.
SetupTimerNoClear(w, compId, js, timeout, repeat, active, reset) ==
    LET timer   == w.timers[compId]
        exists  == timer # Null
        changed == exists /\ (\/ timer.js # js
                              \/ timer.timeout # timeout
                              \/ timer.repeat # repeat
                              \/ timer.reset # reset)
        w1      == IF exists /\ (~active \/ changed)
                   THEN [w EXCEPT !.timers[compId] = Null]
                   ELSE w
        id      == w.nextTimerId
        w2      == [w1 EXCEPT
                       !.timers[compId] = [js |-> js, timeout |-> timeout,
                                           repeat |-> repeat, reset |-> reset,
                                           id |-> id],
                       !.pending = @ \cup {[id |-> id, comp |-> compId, js |-> js,
                                            timeout |-> timeout, repeat |-> repeat]},
                       !.nextTimerId = id + 1]
        w3      == IF exists /\ ~changed THEN w1
                   ELSE IF ~active THEN w1
                   ELSE w2
    IN  [w3 EXCEPT !.tmLast[compId] =
                       [called |-> TRUE, js |-> js, timeout |-> timeout,
                        repeat |-> repeat, active |-> active, reset |-> reset]]

\* setupTimer without its  if (!changed) return : a call that changes
\* nothing sets a timer again.
SetupTimerAlwaysCreates(w, compId, js, timeout, repeat, active, reset) ==
    LET timer   == w.timers[compId]
        exists  == timer # Null
        changed == exists /\ (\/ timer.js # js
                              \/ timer.timeout # timeout
                              \/ timer.repeat # repeat
                              \/ timer.reset # reset)
        w1      == IF exists /\ (~active \/ changed)
                   THEN [ClearTimer(w, timer.id) EXCEPT !.timers[compId] = Null]
                   ELSE w
        id      == w.nextTimerId
        w2      == [w1 EXCEPT
                       !.timers[compId] = [js |-> js, timeout |-> timeout,
                                           repeat |-> repeat, reset |-> reset,
                                           id |-> id],
                       !.pending = @ \cup {[id |-> id, comp |-> compId, js |-> js,
                                            timeout |-> timeout, repeat |-> repeat]},
                       !.nextTimerId = id + 1]
        w3      == IF ~active THEN w1 ELSE w2
    IN  [w3 EXCEPT !.tmLast[compId] =
                       [called |-> TRUE, js |-> js, timeout |-> timeout,
                        repeat |-> repeat, active |-> active, reset |-> reset]]

\* setupTimer(compId, js, timeout, repeat, active, reset)
SetupTimer(w, compId, js, timeout, repeat, active, reset) ==
    LET timer   == w.timers[compId]
        exists  == timer # Null
        changed == exists /\ (\/ timer.js # js
                              \/ timer.timeout # timeout
                              \/ timer.repeat # repeat
                              \/ timer.reset # reset)
        w1      == IF exists /\ (~active \/ changed)
                   THEN [ClearTimer(w, timer.id) EXCEPT !.timers[compId] = Null]
                   ELSE w
        id      == w.nextTimerId
        w2      == [w1 EXCEPT
                       !.timers[compId] = [js |-> js, timeout |-> timeout,
                                           repeat |-> repeat, reset |-> reset,
                                           id |-> id],
                       !.pending = @ \cup {[id |-> id, comp |-> compId, js |-> js,
                                            timeout |-> timeout, repeat |-> repeat]},
                       !.nextTimerId = id + 1]
        w3      == IF exists /\ ~changed THEN w1
                   ELSE IF ~active THEN w1
                   ELSE w2
    IN  [w3 EXCEPT !.tmLast[compId] =
                       [called |-> TRUE, js |-> js, timeout |-> timeout,
                        repeat |-> repeat, active |-> active, reset |-> reset]]

\* Math.round(secs / 60) for whole seconds: the nearest integer, a half
\* rounded up.
RoundMinutes(secs) == (secs + 30) \div 60

\* The label checkSession shows for a time that is not negative.
TimeLabel(secs) ==
    IF secs < 60 THEN StrLessThanMin
    ELSE <<"~">> \o NatToStr(RoundMinutes(secs)) \o StrMin

\* checkSession without its classList.remove: the class of an expired
\* session stays when the session is alive again.
CheckSessionKeepsExpired(w, compId, resp) ==
    LET e  == GetElementById(w, NatToStr(compId))
        w1 == [w EXCEPT !.calls = Append(@, Call("checkSession", NatToStr(compId),
                                                 e # 0, e # 0, FALSE))]
    IN  IF e = 0 THEN w1
        ELSE IF resp.status # StatusOK THEN w1
        ELSE [w1 EXCEPT
                 !.dom[e].expired = @ \/ resp.secs < 0,
                 !.dom[e].label = IF resp.secs < 0 THEN StrExpired
                                  ELSE TimeLabel(resp.secs),
                 !.chk = [done |-> TRUE, comp |-> e, secs |-> resp.secs]]

\* checkSession without its  if (!e) return : the request is sent for an id
\* with no element, and the answer's function then reads e.classList of null.
CheckSessionNoNodeCheck(w, compId, resp) ==
    LET e  == GetElementById(w, NatToStr(compId))
        w1 == [w EXCEPT !.calls = Append(@, Call("checkSession", NatToStr(compId),
                                                 e # 0, TRUE,
                                                 e = 0 /\ resp.status = StatusOK))]
    IN  IF e = 0 THEN w1
        ELSE IF resp.status # StatusOK THEN w1
        ELSE [w1 EXCEPT
                 !.dom[e].expired = resp.secs < 0,
                 !.dom[e].label = IF resp.secs < 0 THEN StrExpired
                                  ELSE TimeLabel(resp.secs),
                 !.chk = [done |-> TRUE, comp |-> e, secs |-> resp.secs]]

\* checkSession that takes a session for expired a minute late
\* (timeoutSec < -60 for timeoutSec < 0).
CheckSessionExpiresLate(w, compId, resp) ==
    LET e  == GetElementById(w, NatToStr(compId))
        w1 == [w EXCEPT !.calls = Append(@, Call("checkSession", NatToStr(compId),
                                                 e # 0, e # 0, FALSE))]
    IN  IF e = 0 THEN w1
        ELSE IF resp.status # StatusOK THEN w1
        ELSE [w1 EXCEPT
                 !.dom[e].expired = resp.secs < 0 - 60,
                 !.dom[e].label = IF resp.secs < 0 - 60 THEN StrExpired
                                  ELSE TimeLabel(resp.secs),
                 !.chk = [done |-> TRUE, comp |-> e, secs |-> resp.secs]]

\* checkSession(compId) with the answer of the session check request.
CheckSession(w, compId, resp) ==
    LET e  == GetElementById(w, NatToStr(compId))
        w1 == [w EXCEPT !.calls = Append(@, Call("checkSession", NatToStr(compId),
                                                 e # 0, e # 0, FALSE))]
    IN  IF e = 0 THEN w1
        ELSE IF resp.status # StatusOK THEN w1
        ELSE [w1 EXCEPT
                 !.dom[e].expired = resp.secs < 0,
                 !.dom[e].label = IF resp.secs < 0 THEN StrExpired
                                  ELSE TimeLabel(resp.secs),
                 !.chk = [done |-> TRUE, comp |-> e, secs |-> resp.secs]]

\* eval of one statement of a script element, or of the js of a timer.
Eval(w, stmt, sess) ==
    IF stmt.fn = "setupTimer"
    THEN SetupTimer(w, stmt.compId, stmt.js, stmt.timeout, stmt.repeat,
                    stmt.active, stmt.reset)
    ELSE IF stmt.fn = "checkSession" THEN CheckSession(w, stmt.arg, sess)
    ELSE w

\* The scripts of inserted markup, run in order from statement k.
RECURSIVE RunScripts(_, _, _, _)
RunScripts(w, scripts, k, sess) ==
    IF k > Len(scripts) THEN w
    ELSE CHOOSE r \in {RunScripts(x, scripts, k + 1, sess) :
                           x \in {Eval(w, scripts[k], sess)}} : TRUE

\* The onreadystatechange function of rerenderComp for an answer with status
\* 200: e.outerHTML is replaced (an empty text removes the element), the
\* focus is given back, and the scripts of the new element are run; with no
\* new element, getElementById(compId) is null and its getElementsByTagName
\* raises a TypeError.
RerenderApply(w, e, body, sess) ==
    LET focusedCompId == ActiveElementId(w)
        w1 == [w EXCEPT !.dom[e] = IF body.empty THEN NoNode ELSE FreshNode(1),
                        !.focused = IF @ = e THEN 0 ELSE @]
        w2 == FocusComp(w1, focusedCompId)
    IN  IF GetElementById(w2, NatToStr(e)) = 0
        THEN [w |-> w2, error |-> TRUE]
        ELSE [w |-> RunScripts(w2, body.scripts, 1, sess), error |-> FALSE]

NoCall == [op |-> "NewListBox", value |-> <<>>, opts |-> <<>>, indices |-> <<>>]

\* NewListBox(values)
LBInit ==
    /\ \E n \in 0..MaxValues : values = SubSeq(AllValues, 1, n)
    /\ multi = FALSE
    /\ selected = AllFalse(Len(values))
    /\ rows = 1
    /\ lbFault = FALSE
    /\ lbLast = NoCall

SetMulti ==
    /\ \E m \in BOOLEAN : multi' = m
    /\ lbFault' = FALSE
    /\ lbLast' = [NoCall EXCEPT !.op = "SetMulti"]
    /\ UNCHANGED <<values, selected, rows, clVars, srvVars, seVars>>

SetRows ==
    /\ \E r \in RowInputs : rows' = r
    /\ lbFault' = FALSE
    /\ lbLast' = [NoCall EXCEPT !.op = "SetRows"]
    /\ UNCHANGED <<values, selected, multi, clVars, srvVars, seVars>>

SetSelected ==
    \E i \in IndexInputs, s \in BOOLEAN :
        LET r == SetSelectedOp(selected, i, s)
        IN  /\ selected' = r.selected
            /\ lbFault' = r.fault
            /\ lbLast' = [NoCall EXCEPT !.op = "SetSelected",
                                        !.indices = <<i>>]
            /\ UNCHANGED <<values, multi, rows, clVars, srvVars, seVars>>

SetSelectedIndices ==
    \E indices \in IndexSlices :
        LET r == SetSelectedIndicesOp(selected, indices)
        IN  /\ selected' = r.selected
            /\ lbFault' = r.fault
            /\ lbLast' = [NoCall EXCEPT !.op = "SetSelectedIndices",
                                        !.indices = indices]
            /\ UNCHANGED <<values, multi, rows, clVars, srvVars, seVars>>

ClearSelected ==
    /\ selected' = ClearSelectedOp(selected)
    /\ lbFault' = FALSE
    /\ lbLast' = [NoCall EXCEPT !.op = "ClearSelected"]
    /\ UNCHANGED <<values, multi, rows, clVars, srvVars, seVars>>

\* preprocessEvent for a change event of the rendered select element: the
\* client submits selIdxs of the element, whose options are the values.
PreprocessClientEvent ==
    \E opts \in [1..Len(values) -> BOOLEAN] :
        LET r == PreprocessEventOp(selected, SelIdxs(opts))
        IN  /\ selected' = r.selected
            /\ lbFault' = r.fault
            /\ lbLast' = [NoCall EXCEPT !.op = "preprocessEvent",
                                        !.value = SelIdxs(opts), !.opts = opts]
            /\ UNCHANGED <<values, multi, rows, clVars, srvVars, seVars>>

\* preprocessEvent for a request whose value no select element produced.
PreprocessOtherEvent ==
    \E toks \in TokenLists :
        LET value == JoinStr(toks, ",")
            r     == PreprocessEventOp(selected, value)
        IN  /\ selected' = r.selected
            /\ lbFault' = r.fault
            /\ lbLast' = [NoCall EXCEPT !.op = "preprocessEventOther",
                                        !.value = value]
            /\ UNCHANGED <<values, multi, rows, clVars, srvVars, seVars>>

LBNext ==
    \/ SetMulti
    \/ SetRows
    \/ SetSelected
    \/ SetSelectedIndices
    \/ ClearSelected
    \/ PreprocessClientEvent
    \/ PreprocessOtherEvent

(***************************************************************************)
(* The client runtime: the steps of the page.                              *)
(***************************************************************************)
\* The re-render request sent asynchronously, as the event submission is.
RerenderAsyncOn == TRUE

\* xmlhttp.open("POST", _pathRenderComp, false): the re-render request is
\* synchronous, so nothing else runs in the page until it is answered.
RerenderAsync == FALSE

NoAnswer == [answered |-> FALSE, comp |-> 0, status |-> 0, empty |-> FALSE,
             error |-> FALSE]

\* Inputs: the seconds a session has left.
SessTimes == {0 - 61, 0 - 1, 0, 45, 59, 60, 89, 90, 125}

\* The answers to a session check: the seconds left, or a failed request.
SessAnswers == {[status |-> StatusOK, secs |-> sessLeft], [status |-> 500, secs |-> 0]}

\* The answers to a re-render request for a component: its markup, an empty
\* body (the component is gone on the server), or a failed request.
RenderAnswers(c) ==
    {[status |-> StatusOK, body |-> Render(c)],
     [status |-> StatusOK, body |-> EmptyBody],
     [status |-> 404, body |-> EmptyBody]}

\* The event response of the server for a list of directives, each a list of
\* fields: fields joined by ",", directives by ";".
EncodeResponse(dirs) ==
    JoinStr([k \in 1..Len(dirs) |-> JoinStr(dirs[k], ",")], ";")

\* Inputs: the directives of an event response: the four codes with their
\* arguments (component 5 is not in the page), a code the client does not
\* know, and a leading field that is a code followed by a letter.
Directives ==
    { << NatToStr(EraNoAction) >>,
      << NatToStr(EraReloadWin), <<"/", "x">> >>,
      << NatToStr(EraDirtyComps), <<"2">>, <<"1">> >>,
      << NatToStr(EraDirtyComps), <<"5">> >>,
      << NatToStr(EraFocusComp), <<"2">> >>,
      << <<"9">>, <<"2">> >>,
      << NatToStr(EraDirtyComps) \o <<"x">>, <<"2">> >> }

\* Most directives of one event response.
MaxDirectives == 2

Responses == UNION {[1..k -> Directives] : k \in 0..MaxDirectives}

\* The event responses that mark the session monitor dirty.
MonitorResponses == { << << NatToStr(EraDirtyComps), NatToStr(MonitorId) >> >> }

SetWindow(w) ==
    /\ dom' = w.dom
    /\ focused' = w.focused
    /\ timers' = w.timers
    /\ pending' = w.pending
    /\ nextTimerId' = w.nextTimerId
    /\ chk' = w.chk
    /\ tmLast' = w.tmLast
    /\ calls' = w.calls

Entry(i, j, kind, id) == [i |-> i, j |-> j, kind |-> kind, id |-> id]

\* The page before its scripts have run: the elements of the components
\* that are in the markup of the page, no timer, no focus.
PageInit(times) ==
    /\ dom \in [Comps -> {NoNode, FreshNode(0)}]
    /\ focused = 0
    /\ timers = [c \in Comps |-> Null]
    /\ pending = {}
    /\ nextTimerId = 1
    /\ chk = NoCheck
    /\ tmLast = [c \in Comps |-> NoSetup]
    /\ sessLeft \in times
    /\ erPhase = "load"
    /\ erText = <<>>
    /\ erDirs = <<>>
    /\ erI = 0
    /\ erJ = 1
    /\ inflight = {}
    /\ rr = NoAnswer
    /\ log = <<>>
    /\ calls = <<>>
    /\ loaded = FALSE

\* The page is parsed: the script elements of its markup run in document
\* order (the session monitor's).  window.onload has not fired yet.
RECURSIVE LoadScripts(_, _, _)
LoadScripts(w, todo, sess) ==
    IF todo = {} THEN w
    ELSE LET c == CHOOSE x \in todo : \A y \in todo : x <= y
         IN  CHOOSE r \in {LoadScripts(x, todo \ {c}, sess) :
                                x \in {RunScripts(w, Render(c).scripts, 1, sess)}} : TRUE

PageParse ==
    /\ erPhase = "load"
    /\ \E sess \in SessAnswers :
          \E w1 \in {LoadScripts(Window, {c \in Comps : dom[c].present}, sess)} :
              SetWindow(w1)
    /\ erPhase' = "idle"
    /\ rr' = NoAnswer
    /\ UNCHANGED <<sessLeft, erText, erDirs, erI, erJ, inflight, log, loaded, lbVars,
                   srvVars, seVars>>

\* window.onload fires, once, as a task of its own after the page is parsed
\* and when no script runs: the function handed to addonload focuses
\* _focCompId.  Timers, event submissions and event responses may come
\* before it.
WindowOnload ==
    /\ erPhase = "idle"
    /\ ~loaded
    /\ \E foc \in {0} \cup Comps :
          \E w \in {IF foc = 0 THEN Window ELSE FocusComp(Window, NatToStr(foc))} :
              SetWindow(w)
    /\ loaded' = TRUE
    /\ rr' = NoAnswer
    /\ UNCHANGED <<sessLeft, erPhase, erText, erDirs, erI, erJ, inflight, log, lbVars,
                   srvVars, seVars>>

\* A timer of the browser fires: a timeout is no longer pending, its js runs.
TimerFires ==
    /\ erPhase = "idle"
    /\ \E t \in pending, sess \in SessAnswers :
          \E w1 \in {IF t.repeat THEN Window
                      ELSE [Window EXCEPT !.pending = @ \ {t}]} :
          \E w2 \in {Eval(w1, t.js, sess)} :
              SetWindow(w2)
    /\ rr' = NoAnswer
    /\ UNCHANGED <<sessLeft, erPhase, erText, erDirs, erI, erJ, inflight, log, loaded, lbVars,
                   srvVars, seVars>>

\* Some script of the page calls setupTimer.
SetupTimerCall(repeats) ==
    /\ erPhase = "idle"
    /\ \E c \in Comps, k \in {1, 2}, timeout \in {1000, 60 * 1000},
          repeat \in repeats, active \in BOOLEAN, reset \in BOOLEAN :
          LET w == SetupTimer(Window, c, OtherJs(k), timeout, repeat, active, reset)
          IN  /\ w.nextTimerId <= MaxTimerIds + 1
              /\ SetWindow(w)
    /\ rr' = NoAnswer
    /\ UNCHANGED <<sessLeft, erPhase, erText, erDirs, erI, erJ, inflight, log, loaded, lbVars,
                   srvVars, seVars>>

\* Server: time passes, or a request renews the session.
SessionTimeChanges ==
    /\ \E s \in SessTimes \ {sessLeft} : sessLeft' = s
    /\ chk' = NoCheck
    /\ rr' = NoAnswer
    /\ calls' = <<>>
    /\ UNCHANGED <<dom, focused, timers, pending, nextTimerId, tmLast, erPhase,
                   erText, erDirs, erI, erJ, inflight, log, loaded, lbVars,
                   srvVars, seVars>>

\* The answer to an event submission arrives with status 200: procEresp
\* starts, up to its loop.
ErespBegin(responses) ==
    /\ erPhase = "idle"
    /\ \E r \in responses :
          LET text == EncodeResponse(r)
          IN  /\ erText' = text
              /\ erDirs' = r
              /\ IF Len(Split(text, ";")) = 0
                 THEN /\ erPhase' = "done"
                      /\ log' = <<Entry(0, 0, "alertNoResponse", <<>>)>>
                 ELSE /\ erPhase' = "run"
                      /\ log' = <<>>
    /\ erI' = 0
    /\ erJ' = 1
    /\ chk' = NoCheck
    /\ rr' = NoAnswer
    /\ calls' = <<>>
    /\ UNCHANGED <<dom, focused, timers, pending, nextTimerId, tmLast, sessLeft,
                   inflight, loaded, lbVars,
                   srvVars, seVars>>

\* var actions = xmlhttp.responseText.split(";")
Actions == Split(erText, ";")

\* One turn of the loops of procEresp: the loop test, or one directive, or
\* one id of a directive that marks components dirty.  rerenderComp(id)
\* sends its request if the element exists.
ErespStep ==
    /\ erPhase = "run"
    /\ RerenderAsync \/ inflight = {}
    /\ chk' = NoCheck
    /\ rr' = NoAnswer
    /\ UNCHANGED <<dom, timers, pending, nextTimerId, tmLast, sessLeft, erText,
                   erDirs, loaded, lbVars,
                   srvVars, seVars>>
    /\ IF erI >= Len(Actions)
       THEN /\ erPhase' = "done"
            /\ calls' = <<>>
            /\ UNCHANGED <<focused, erI, erJ, inflight, log>>
       ELSE \E n \in {Split(Actions[erI + 1], ",")} :
            \E code \in {ParseInt(n[1])} :
                /\ erPhase' = "run"
                /\ IF IsCode(code, EraDirtyComps) /\ erJ < Len(n)
                   THEN LET e == GetElementById(Window, n[erJ + 1])
                            w == RerenderComp(Window, n[erJ + 1])
                        IN  /\ log' = Append(log, Entry(erI, erJ,
                                          IF e = 0 THEN "rerenderCompNoElement"
                                          ELSE "rerenderComp", n[erJ + 1]))
                            /\ calls' = w.calls
                            /\ inflight' = IF ~w.calls[Len(w.calls)].sent THEN inflight
                                           ELSE inflight \cup
                                                {[i |-> erI, j |-> erJ, e |-> e,
                                                  id |-> n[erJ + 1]]}
                            /\ IF erJ + 1 < Len(n)
                               THEN erI' = erI /\ erJ' = erJ + 1
                               ELSE erI' = erI + 1 /\ erJ' = 1
                            /\ UNCHANGED focused
                   ELSE /\ erI' = erI + 1
                        /\ erJ' = 1
                        /\ UNCHANGED inflight
                        /\ IF IsCode(code, EraFocusComp) /\ Len(n) > 1
                           THEN calls' = FocusComp(Window, NumToStr(ParseInt(n[2]))).calls
                           ELSE calls' = <<>>
                        /\ IF IsCode(code, EraDirtyComps) THEN UNCHANGED <<focused, log>>
                           ELSE IF IsCode(code, EraFocusComp)
                           THEN IF Len(n) > 1
                                THEN LET id == NumToStr(ParseInt(n[2]))
                                     IN  /\ focused' = FocusComp(Window, id).focused
                                         /\ log' = Append(log, Entry(erI, 1, "focusComp", id))
                                ELSE UNCHANGED <<focused, log>>
                           ELSE IF IsCode(code, EraNoAction) THEN UNCHANGED <<focused, log>>
                           ELSE IF IsCode(code, EraReloadWin)
                           THEN /\ log' = Append(log,
                                     IF Len(n) > 1 /\ Len(n[2]) > 0
                                     THEN Entry(erI, 1, "href", n[2])
                                     ELSE Entry(erI, 1, "reload", <<>>))
                                /\ UNCHANGED focused
                           ELSE /\ log' = Append(log, Entry(erI, 1, "alertUnknownCode", n[1]))
                                /\ UNCHANGED focused

\* A re-render request is answered: with status 200 the onreadystatechange
\* function of rerenderComp handles the answer.
RerenderRecv ==
    /\ inflight # {}
    /\ \E q \in inflight : \E ans \in RenderAnswers(q.e), sess \in SessAnswers :
          \E r \in {IF ans.status = StatusOK
                   THEN RerenderApply(Window, q.e, ans.body, sess)
                   ELSE [w |-> Window, error |-> FALSE]} :
              /\ r.w.nextTimerId <= MaxTimerIds + 1
              /\ SetWindow(r.w)
              /\ rr' = [answered |-> TRUE, comp |-> q.e, status |-> ans.status,
                        empty |-> ans.body.empty, error |-> r.error]
              /\ log' = Append(log, Entry(q.i, q.j, "answered", q.id))
              /\ inflight' = inflight \ {q}
    /\ UNCHANGED <<sessLeft, erPhase, erText, erDirs, erI, erJ, loaded, lbVars,
                   srvVars, seVars>>

\* procEresp has returned.
ErespEnd ==
    /\ erPhase = "done"
    /\ inflight = {}
    /\ erPhase' = "idle"
    /\ erText' = <<>>
    /\ erDirs' = <<>>
    /\ erI' = 0
    /\ erJ' = 1
    /\ log' = <<>>
    /\ chk' = NoCheck
    /\ rr' = NoAnswer
    /\ calls' = <<>>
    /\ UNCHANGED <<dom, focused, timers, pending, nextTimerId, tmLast, sessLeft,
                   inflight, loaded, lbVars,
                   srvVars, seVars>>

(***************************************************************************)
(* se(event, etype, compId, compValue): the event submission.              *)
(***************************************************************************)
\* The modifier key masks (gwu's ModKeyAlt, ModKeyCtrl, ModKeyMeta,
\* ModKeyShift), written into _modKeyAlt, _modKeyCtlr, _modKeyMeta and
\* _modKeyShift.
ModKeyAlt == 1

ModKeyCtrl == 2

ModKeyMeta == 4

ModKeyShift == 8

\* The value of a variable declared with no initializer.
JsUndefined == [undefined |-> TRUE]

JsNaN == [nan |-> TRUE, val |-> 0]

\* x += n for a number n: undefined + n and NaN + n are NaN.
JsPlusAssign(x, n) ==
    IF x = JsUndefined \/ x.nan THEN JsNaN
    ELSE [nan |-> FALSE, val |-> x.val + n]

\* event.name used as a condition: a property the event does not have is
\* undefined, which counts as false.
Truthy(event, name) == name \in DOMAIN event /\ event[name]

\* Lines 187 to 191 of se: var modKeys; then four  modKeys += ... .
ModKeys(event) ==
    LET m0 == JsUndefined
        m1 == JsPlusAssign(m0, IF Truthy(event, "altKey") THEN ModKeyAlt ELSE 0)
        m2 == JsPlusAssign(m1, IF Truthy(event, "ctlrKey") THEN ModKeyCtrl ELSE 0)
        m3 == JsPlusAssign(m2, IF Truthy(event, "metaKey") THEN ModKeyMeta ELSE 0)
        m4 == JsPlusAssign(m3, IF Truthy(event, "shiftKey") THEN ModKeyShift ELSE 0)
    IN  m4

\* se called with event == null.
NoEvent == [null |-> TRUE]

\* Inputs: the DOM events: the modifier keys held, and whether the event is
\* a mouse event (clientX is set).
DomEvents ==
    [altKey : BOOLEAN, ctrlKey : BOOLEAN, metaKey : BOOLEAN, shiftKey : BOOLEAN,
     mouse : BOOLEAN]

\* Inputs: event types and component values (none, or a selection).
EventTypes == {0, 1}

CompValues == {[null |-> TRUE, text |-> <<>>], [null |-> FALSE, text |-> <<"1", ",">>]}

NoSubmission ==
    [called |-> FALSE, sent |-> FALSE, error |-> FALSE, etype |-> 0, compId |-> 0,
     value |-> [null |-> TRUE, text |-> <<>>], focCompId |-> <<>>,
     mouse |-> FALSE, hasModKeys |-> FALSE, modKeys |-> <<>>]

\* se(event, etype, compId, compValue): the fields of the data it sends.
\* For a mouse event the offsets of the component's element are read, which
\* raises a TypeError when the component has no element; coordinates, button
\* and key code are sent as the event has them and are left out here.
Se(w, event, etype, compId, value) ==
    LET base == [NoSubmission EXCEPT !.called = TRUE, !.etype = etype,
                                     !.compId = compId, !.value = value,
                                     !.focCompId = ActiveElementId(w)]
    IN  IF event = NoEvent THEN [base EXCEPT !.sent = TRUE]
        ELSE IF event.mouse /\ GetElementById(w, NatToStr(compId)) = 0
        THEN [base EXCEPT !.error = TRUE]
        ELSE [base EXCEPT !.sent = TRUE, !.mouse = event.mouse,
                          !.hasModKeys = TRUE,
                          !.modKeys = NumToStr(ModKeys(event))]

\* An event handler of the page calls se.
SendEvent ==
    /\ erPhase = "idle"
    /\ \E event \in DomEvents \cup {NoEvent}, etype \in EventTypes, c \in Comps,
          value \in CompValues :
          /\ seEvent' = event
          /\ seData' = Se(Window, event, etype, c, value)
    /\ UNCHANGED <<lbVars, clVars, srvVars>>

\* No event submitted.
NoSend ==
    /\ seEvent = NoEvent
    /\ seData = NoSubmission

(***************************************************************************)
(* The server side: registry, Dirty Tracker, Event Dispatcher.             *)
(***************************************************************************)
\* Most ids a session allocates.
MaxCompIds == 2

\* Most markDirty calls between two drains.
MaxMarks == 3

\* The ids an event or a markDirty call can name: allocated or not.
CompIds == 1..MaxCompIds

\* A resolve that returns a stale handle for an id that is not registered.
ResolveStale(reg, id) == id \in reg \/ id \in CompIds

\* resolve(id): the component is live.  (NotFound is FALSE.)
Resolve(reg, id) == id \in reg

\* A markDirty that forgets what was marked before.
MarkDirtyReplaces(d, id) == {id}

\* markDirty(id)
MarkDirtyOp(d, id) == d \cup {id}

\* drainDirty(): the contents of the set as an ordered list, in any order.
DrainOrders(d) ==
    {ids \in [1..Cardinality(d) -> d] :
        \A a, b \in 1..Cardinality(d) : a # b => ids[a] # ids[b]}

\* The response actions.
NoAction == [kind |-> "NoAction"]

ReloadWindow == [kind |-> "ReloadWindow"]

FocusComponent(id) == [kind |-> "FocusComponent", id |-> id]

MarkDirtyAction(ids) == [kind |-> "MarkDirty", ids |-> ids]

NoDrain == [done |-> FALSE, ids |-> <<>>, calls |-> <<>>]

NoDispatch == [phase |-> "none", target |-> 0, live |-> FALSE, ran |-> FALSE,
               reload |-> FALSE, focus |-> 0, actions |-> <<>>]

\* A dispatch that resolves to nothing: [NoAction], no handler.
DispatchNotFound(target, live) ==
    [NoDispatch EXCEPT !.phase = "returned", !.target = target, !.live = live,
                       !.actions = <<NoAction>>]

\* A dispatch whose target resolved: its handlers are invoked.
DispatchFound(target, live) ==
    [NoDispatch EXCEPT !.phase = "handlers", !.target = target, !.live = live,
                       !.ran = TRUE]

\* The actions a dispatch returns after its handlers: the drained ids if
\* any, the focus request if any, the reload last; NoAction if none.
DispatchActions(ids, focus, reload) ==
    LET acts == (IF ids # <<>> THEN <<MarkDirtyAction(ids)>> ELSE <<>>)
                    \o (IF focus # 0 THEN <<FocusComponent(focus)>> ELSE <<>>)
                    \o (IF reload THEN <<ReloadWindow>> ELSE <<>>)
    IN  IF acts = <<>> THEN <<NoAction>> ELSE acts

\* A session with no component.
ServerInit ==
    /\ registry = {}
    /\ allocated = 0
    /\ dirty = {}
    /\ marks = <<>>
    /\ drained = NoDrain
    /\ disp = NoDispatch

\* No session: the server part of the state while something else is
\* looked at.
NoServer == ServerInit

\* No dispatch is running (dispatches of a session are serialized: the
\* session is held from the start of a dispatch until its response is sent).
DispIdle == disp.phase = "none"

\* allocate(): a fresh id, never reused.
Allocate ==
    /\ DispIdle
    /\ allocated < MaxCompIds
    /\ allocated' = allocated + 1
    /\ registry' = registry \cup {allocated + 1}
    /\ drained' = NoDrain
    /\ UNCHANGED <<dirty, marks, disp, lbVars, clVars, seVars>>

\* A component is removed: its id is unregistered.
Remove ==
    /\ DispIdle
    /\ \E id \in registry : registry' = registry \ {id}
    /\ drained' = NoDrain
    /\ UNCHANGED <<allocated, dirty, marks, disp, lbVars, clVars, seVars>>

\* markDirty(id), by a handler of the running dispatch or by other code of
\* the session.
MarkDirtyCall ==
    /\ disp.phase # "returned"
    /\ Len(marks) < MaxMarks
    /\ \E id \in CompIds :
          /\ dirty' = MarkDirtyOp(dirty, id)
          /\ marks' = Append(marks, id)
    /\ drained' = NoDrain
    /\ UNCHANGED <<registry, allocated, disp, lbVars, clVars, seVars>>

\* drainDirty() for a response cycle outside a dispatch.
DrainDirty ==
    /\ DispIdle
    /\ \E ids \in DrainOrders(dirty) :
          drained' = [done |-> TRUE, ids |-> ids, calls |-> marks]
    /\ dirty' = {}
    /\ marks' = <<>>
    /\ UNCHANGED <<registry, allocated, disp, lbVars, clVars, seVars>>

\* dispatch(session, event), step 1: the target is resolved.
DispatchBegin ==
    /\ DispIdle
    /\ \E target \in CompIds :
          disp' = IF Resolve(registry, target)
                  THEN DispatchFound(target, target \in registry)
                  ELSE DispatchNotFound(target, target \in registry)
    /\ drained' = NoDrain
    /\ UNCHANGED <<registry, allocated, dirty, marks, lbVars, clVars, seVars>>

\* A handler marks the window for reload.
HandlerReload ==
    /\ disp.phase = "handlers"
    /\ ~disp.reload
    /\ disp' = [disp EXCEPT !.reload = TRUE]
    /\ drained' = NoDrain
    /\ UNCHANGED <<registry, allocated, dirty, marks, lbVars, clVars, seVars>>

\* A handler requests the focus for a component.
HandlerFocus ==
    /\ disp.phase = "handlers"
    /\ disp.focus = 0
    /\ \E id \in CompIds : disp' = [disp EXCEPT !.focus = id]
    /\ drained' = NoDrain
    /\ UNCHANGED <<registry, allocated, dirty, marks, lbVars, clVars, seVars>>

\* dispatch, steps 4 to 6: the handlers have run, the Dirty Tracker is
\* drained and the actions are returned.
DispatchEnd ==
    /\ disp.phase = "handlers"
    /\ \E ids \in DrainOrders(dirty) :
          /\ drained' = [done |-> TRUE, ids |-> ids, calls |-> marks]
          /\ disp' = [disp EXCEPT
                         !.phase = "returned",
                         !.actions = DispatchActions(ids, disp.focus, disp.reload)]
    /\ dirty' = {}
    /\ marks' = <<>>
    /\ UNCHANGED <<registry, allocated, lbVars, clVars, seVars>>

\* The response of the dispatch is sent and the session is released.
DispatchReturn ==
    /\ disp.phase = "returned"
    /\ disp' = NoDispatch
    /\ drained' = NoDrain
    /\ UNCHANGED <<registry, allocated, dirty, marks, lbVars, clVars, seVars>>

ServerNext ==
    \/ Allocate
    \/ Remove
    \/ MarkDirtyCall
    \/ DrainDirty
    \/ DispatchBegin
    \/ HandlerReload
    \/ HandlerFocus
    \/ DispatchEnd
    \/ DispatchReturn

(***************************************************************************)
(* Specifications.                                                         *)
(***************************************************************************)
\* No page: the client part of the state while a ListBox is looked at.
NoPage ==
    /\ dom = [c \in Comps |-> NoNode]
    /\ focused = 0
    /\ timers = [c \in Comps |-> Null]
    /\ pending = {}
    /\ nextTimerId = 1
    /\ chk = NoCheck
    /\ tmLast = [c \in Comps |-> NoSetup]
    /\ sessLeft = 0
    /\ erPhase = "idle"
    /\ erText = <<>>
    /\ erDirs = <<>>
    /\ erI = 0
    /\ erJ = 1
    /\ inflight = {}
    /\ rr = NoAnswer
    /\ log = <<>>
    /\ calls = <<>>
    /\ loaded = FALSE

\* No ListBox: the ListBox part of the state while the client is looked at.
NoListBox ==
    /\ values = <<>>
    /\ multi = FALSE
    /\ selected = <<>>
    /\ rows = 1
    /\ lbFault = FALSE
    /\ lbLast = NoCall

\* A ListBox and the calls made on it.
InitListBox == LBInit /\ NoPage /\ NoServer /\ NoSend

SpecListBox == InitListBox /\ [][LBNext]_vars

\* The timer table under setupTimer calls for repeating timers.
SetupRepeatingTimer == SetupTimerCall({TRUE})

RepeatingTimersNext ==
    \/ SetupRepeatingTimer
    \/ TimerFires

InitTimers == NoPage /\ NoListBox /\ NoServer /\ NoSend

SpecRepeatingTimers == InitTimers /\ [][RepeatingTimersNext]_vars

\* The timer table under setupTimer calls for repeating and one-shot timers.
SetupAnyTimer == SetupTimerCall(BOOLEAN)

TimersNext ==
    \/ SetupAnyTimer
    \/ TimerFires

SpecTimers == InitTimers /\ [][TimersNext]_vars

\* A page with the session monitor: its scripts, onload, timer ticks, re-renders of the
\* monitor, while the session's time changes.
MonitorMarkedDirty == ErespBegin(MonitorResponses)

MonitorNext ==
    \/ PageParse
    \/ WindowOnload
    \/ TimerFires
    \/ SessionTimeChanges
    \/ MonitorMarkedDirty
    \/ ErespStep
    \/ RerenderRecv
    \/ ErespEnd

InitMonitor == PageInit(SessTimes) /\ NoListBox /\ NoServer /\ NoSend

SpecMonitor == InitMonitor /\ [][MonitorNext]_vars

\* The same page when every session check the page makes completes (its
\* request is answered with status 200), the page's steps run to their end,
\* and the browser keeps firing the timer between them.
CheckCompletes ==
    \A k \in 1..Len(calls') :
        (calls'[k].fn = "checkSession" /\ calls'[k].found) => chk'.done

MonitorLiveNext == MonitorNext /\ CheckCompletes

SpecMonitorLive ==
    /\ InitMonitor
    /\ [][MonitorLiveNext]_vars
    /\ WF_vars(PageParse /\ CheckCompletes)
    /\ SF_vars(TimerFires /\ CheckCompletes)
    /\ WF_vars(ErespStep)
    /\ WF_vars(RerenderRecv /\ CheckCompletes)
    /\ WF_vars(ErespEnd)

\* A page and the event responses it processes.
EventAnswered == ErespBegin(Responses)

ErespNext ==
    \/ PageParse
    \/ WindowOnload
    \/ TimerFires
    \/ EventAnswered
    \/ ErespStep
    \/ RerenderRecv
    \/ ErespEnd

InitEresp == PageInit({45}) /\ NoListBox /\ NoServer /\ NoSend

SpecEresp == InitEresp /\ [][ErespNext]_vars

\* A page whose event handlers submit events.
SendEventNext ==
    \/ PageParse
    \/ WindowOnload
    \/ SendEvent

InitSendEvent == PageInit({45}) /\ NoListBox /\ NoServer /\ NoSend

SpecSendEvent == InitSendEvent /\ [][SendEventNext]_vars

\* A session on the server: its registry, Dirty Tracker and dispatches.
InitServer == ServerInit /\ NoPage /\ NoListBox /\ NoSend

SpecServer == InitServer /\ [][ServerNext]_vars

\* A page and the event responses that mark components dirty.
\* Most ids of one directive.
MaxDirtyIds == 3

\* Inputs: the component ids a handler marks dirty: component 2 is in the
\* page, the others (one of two digits) are not.
DirtyIds == {2, 3, 7, 9, 12}

DirtyLists == UNION {[1..k -> DirtyIds] : k \in 0..MaxDirtyIds}

\* The directive MarkDirty(ids) as the fields the server writes: the code,
\* then each id in decimal.
MarkDirty(ids) ==
    <<NatToStr(EraDirtyComps)>> \o [k \in 1..Len(ids) |-> NatToStr(ids[k])]

\* Inputs: an event response that is MarkDirty(ids) alone, or MarkDirty(ids)
\* between a focus directive and a no-action directive.
MarkDirtyResponses ==
    {<<MarkDirty(ids)>> : ids \in DirtyLists}
        \cup {<< <<NatToStr(EraFocusComp), <<"2">> >>, MarkDirty(ids),
                 <<NatToStr(EraNoAction)>> >> : ids \in DirtyLists}

MarkDirtyAnswered == ErespBegin(MarkDirtyResponses)

MarkDirtyNext ==
    \/ PageParse
    \/ WindowOnload
    \/ MarkDirtyAnswered
    \/ ErespStep
    \/ RerenderRecv
    \/ ErespEnd

InitMarkDirty == PageInit({45}) /\ NoListBox /\ NoServer /\ NoSend

SpecMarkDirty == InitMarkDirty /\ [][MarkDirtyNext]_vars


(***************************************************************************)
(* Claims about the ListBox.                                               *)
(***************************************************************************)
\* The indices (from 0) a select element with the option states opts submits.
SubmittedIndices(opts) == {i \in 0..(Len(opts) - 1) : opts[i + 1]}

\* A token of a submitted value that is not the index of a value: a
\* non-numeric token, a negative index or an index >= len(values).  The empty
\* token the client's trailing comma leaves is not counted.
MalformedToken(tok, n) ==
    \/ Len(tok) > 0 /\ Atoi(tok).err
    \/ ~Atoi(tok).err /\ ~(0 <= Atoi(tok).val /\ Atoi(tok).val < n)

Malformed(value, n) ==
    \E k \in 1..Len(Split(value, ",")) : MalformedToken(Split(value, ",")[k], n)

\* C1: every SetSelectedIndices, ClearSelected and preprocessEvent call, with
\* an index out of range included, and every SetSelected call completes
\* without a fault and leaves len(selected) = len(values).  (A SetSelected
\* call whose own index is out of range is left out: the claim names no such
\* call.)
C1_NoFaultAndLenInvariant ==
    /\ lbLast.op # "SetSelected" => ~lbFault
    /\ Len(selected) = Len(values)

\* C1, the part that holds of the code: a panicking call leaves the length of
\* the selection vector alone.
C1_LenInvariant == Len(selected) = Len(values)

\* C2: preprocessEvent on a malformed submitted value raises nothing and
\* leaves the selection vector as it was before the call.
C2_MalformedIsNoChange ==
    [][(/\ lbLast'.op \in {"preprocessEvent", "preprocessEventOther"}
        /\ Malformed(lbLast'.value, Len(values)))
       => (~lbFault' /\ selected' = selected)]_vars

\* C3: after preprocessEvent of a value the client produced from in-range
\* indices, Selected(i) holds exactly for the submitted indices,
\* SelectedIndices() lists them in ascending order and SelectedValue() is the
\* value at the smallest of them.
C3_SelectionIsSubmitted ==
    lbLast.op = "preprocessEvent" =>
        LET sub == SubmittedIndices(lbLast.opts)
            si  == SelectedIndices(selected)
        IN  /\ ~lbFault
            /\ \A i \in 0..(Len(values) - 1) : selected[i + 1] <=> i \in sub
            /\ {si[k] : k \in 1..Len(si)} = sub
            /\ \A k \in 1..(Len(si) - 1) : si[k] < si[k + 1]
            /\ sub # {} =>
                 SelectedValue(values, selected) =
                     values[(CHOOSE i \in sub : \A j \in sub : i <= j) + 1]

\* C3, the part that holds of the code: the same for a submitted value that
\* names at least one index.
C3_NonEmptySelectionIsSubmitted ==
    (lbLast.op = "preprocessEvent" /\ SubmittedIndices(lbLast.opts) # {})
        => C3_SelectionIsSubmitted

(***************************************************************************)
(* Claims about the client runtime.                                        *)
(***************************************************************************)
\* The timers of the browser that were set for a component and not cleared.
LiveTimers(c) == {t \in pending : t.comp = c}

\* C4: after any sequence of setupTimer calls for repeating timers, a
\* component whose last call was inactive (or that had no call) has no table
\* entry and no live timer, and one whose last call was active has exactly
\* one live timer, the one of its table entry, with the js, timeout, repeat
\* and reset of that call: a timer that was replaced has been cleared.
C4_OneLiveTimerPerComp ==
    \A c \in Comps :
        IF tmLast[c].called /\ tmLast[c].active
        THEN /\ timers[c] # Null
             /\ timers[c].js = tmLast[c].js
             /\ timers[c].timeout = tmLast[c].timeout
             /\ timers[c].repeat = tmLast[c].repeat
             /\ timers[c].reset = tmLast[c].reset
             /\ LiveTimers(c) = {[id |-> timers[c].id, comp |-> c,
                                  js |-> tmLast[c].js,
                                  timeout |-> tmLast[c].timeout,
                                  repeat |-> tmLast[c].repeat]}
        ELSE /\ timers[c] = Null
             /\ LiveTimers(c) = {}

\* C4 witness: three timers were set, one component was switched off after
\* it had a timer, the other holds the third timer, the only live one.
C4_Witness ==
    \E c \in Comps, d \in Comps :
        /\ c # d
        /\ tmLast[c].called /\ tmLast[c].active
        /\ timers[c] # Null /\ timers[c].id = 3
        /\ tmLast[d].called /\ ~tmLast[d].active
        /\ nextTimerId = 4
        /\ Cardinality(pending) = 1

\* The timer the session monitor's script asks for.
MonitorTimerSet ==
    /\ timers[MonitorId] # Null
    /\ timers[MonitorId].js = CheckSessionJs(MonitorId)
    /\ timers[MonitorId].timeout = 60000
    /\ timers[MonitorId].repeat
    /\ ~timers[MonitorId].reset
    /\ LiveTimers(MonitorId) =
           {[id |-> timers[MonitorId].id, comp |-> MonitorId,
             js |-> CheckSessionJs(MonitorId), timeout |-> 60000, repeat |-> TRUE]}

\* C5: once the scripts of the page have run with the session monitor in it, the
\* monitor has one repeating timer of 60000 ms that runs checkSession(id),
\* and no later step (a re-render of the monitor re-runs its script) sets a
\* second timer for it or clears or restarts the one it has.
C5_MonitorTimerKept ==
    /\ []((erPhase # "load" /\ dom[MonitorId].present) => MonitorTimerSet)
    /\ [][timers[MonitorId] # Null =>
             /\ timers'[MonitorId] = timers[MonitorId]
             /\ {t \in pending' : t.comp = MonitorId} = LiveTimers(MonitorId)]_vars

\* C5 witness: the monitor has been re-rendered and still has its first timer.
C5_Witness ==
    /\ dom[MonitorId].present
    /\ dom[MonitorId].rev = 1
    /\ erPhase = "idle"
    /\ timers[MonitorId] # Null
    /\ timers[MonitorId].id = 1
    /\ Cardinality(pending) = 1

\* C6: after a completed session check that returned s seconds, the element
\* has the expired class exactly if s < 0, and its label is "Expired!" for
\* s < 0, "<1 min" for 0 <= s < 60 and "~" round(s/60) " min" for s >= 60
\* (k = round(s/60) is the integer with 60k - 30 <= s < 60k + 30).
C6_LabelIsCheckResult ==
    chk.done =>
        LET node == dom[chk.comp]
            s    == chk.secs
        IN  /\ node.present
            /\ node.expired <=> s < 0
            /\ s < 0 => node.label = StrExpired
            /\ (0 <= s /\ s < 60) => node.label = StrLessThanMin
            /\ s >= 60 =>
                 \E k \in 1..(s \div 60 + 1) :
                     /\ 60 * k - 30 <= s
                     /\ s < 60 * k + 30
                     /\ node.label = <<"~">> \o NatToStr(k) \o StrMin
            /\ s = 45 => node.label = <<"<", "1", " ", "m", "i", "n">>
            /\ s = 125 => node.label = <<"~", "2", " ", "m", "i", "n">>

\* C6 witness: a check of a live session has completed on an element that
\* no re-render has replaced, after the monitor's timer was set.
C6_Witness ==
    /\ chk.done
    /\ chk.secs = 125
    /\ dom[chk.comp].rev = 0
    /\ erPhase = "idle"

LogBefore(a, b) == a.i < b.i \/ (a.i = b.i /\ a.j < b.j)

\* C7: what procEresp does is in the order of the response: directive by
\* directive, and within a directive that marks components dirty id by id,
\* and each re-render request is answered (its element replaced) before
\* anything else is done.
C7_DirectivesInOrder ==
    /\ \A k \in 1..(Len(log) - 1) :
          \/ LogBefore(log[k], log[k + 1])
          \/ /\ log[k].kind = "rerenderComp"
             /\ log[k + 1] = [log[k] EXCEPT !.kind = "answered"]
    /\ \A k \in 1..Len(log) :
          log[k].kind = "rerenderComp" =>
              IF k < Len(log)
              THEN log[k + 1] = [log[k] EXCEPT !.kind = "answered"]
              ELSE \E q \in inflight : q.i = log[k].i /\ q.j = log[k].j /\ inflight = {q}
    /\ \A k \in 1..Len(log) :
          log[k].kind = "answered" =>
              k > 1 /\ log[k - 1] = [log[k] EXCEPT !.kind = "rerenderComp"]
    /\ Cardinality(inflight) <= 1

\* C7 witness: a response of two directives was processed, the first of
\* which had two components re-rendered.
C7_Witness ==
    /\ erPhase = "done"
    /\ \E k \in 1..Len(log), m \in 1..Len(log) :
          /\ k < m
          /\ log[k].kind = "answered" /\ log[k].i = 0 /\ log[k].j = 2
          /\ log[k - 2].kind = "answered" /\ log[k - 2].j = 1
          /\ log[m].i = 1

\* The texts of the four codes.
CodeTexts == {NatToStr(EraNoAction), NatToStr(EraReloadWin),
              NatToStr(EraDirtyComps), NatToStr(EraFocusComp)}

\* The entries of the log that directive i made.
LogOf(i) == SelectSeq(log, LAMBDA en : en.i = i)

\* C8: for every directive whose leading field is not one of the four
\* codes, procEresp raises the "Unknown response code" alert and does
\* nothing else for that directive.
C8_UnknownCodeAlerts ==
    erPhase = "done" =>
        \A i \in 0..(Len(Actions) - 1) :
            LET lead == Split(Actions[i + 1], ",")[1]
            IN  lead \notin CodeTexts =>
                    LogOf(i) = <<Entry(i, 1, "alertUnknownCode", lead)>>

\* C8, the part that holds of the code: the same for every directive whose
\* leading field parseInt does not read as one of the four codes.
C8_UnparsedCodeAlerts ==
    erPhase = "done" =>
        \A i \in 0..(Len(Actions) - 1) :
            LET lead == Split(Actions[i + 1], ",")[1]
            IN  (\A code \in {EraNoAction, EraReloadWin, EraDirtyComps, EraFocusComp} :
                     ~IsCode(ParseInt(lead), code))
                    => LogOf(i) = <<Entry(i, 1, "alertUnknownCode", lead)>>

\* C9: for an empty response body procEresp raises the "No response
\* received!" alert and returns, reading no directive.
C9_EmptyBodyAlertsNoResponse ==
    (erPhase = "done" /\ erText = <<>>) =>
        log = <<Entry(0, 0, "alertNoResponse", <<>>)>>

\* C10: a re-render answer with an empty body is a silent no-op: the
\* element, the focus and the rest of the document stay as they were and no
\* error is raised.
C10_EmptyRerenderIsNoOp ==
    [][(rr'.answered /\ rr'.empty) =>
           /\ dom' = dom
           /\ focused' = focused
           /\ ~rr'.error]_vars

(***************************************************************************)
(* Claims about component ids with no element.                             *)
(***************************************************************************)
\* The calls of the step all found no element for their compId.
OnlyMissingCalls(cs) == cs # <<>> /\ \A k \in 1..Len(cs) : ~cs[k].found

\* C11: for a component id that has no DOM node, rerenderComp, checkSession
\* and focusComp are no-ops: the call sends no request and raises no error,
\* and a step that consists of such calls only (a timer tick, a directive of
\* an event response, the onload function) changes no element, not the
\* focus, no entry of the timer table, and leaves no request in flight.
C11_NoNodeIsNoOp ==
    [][/\ \A k \in 1..Len(calls') :
              ~calls'[k].found => ~calls'[k].sent /\ ~calls'[k].error
       /\ (OnlyMissingCalls(calls') /\ ~rr'.answered) =>
              /\ dom' = dom
              /\ focused' = focused
              /\ timers' = timers
              /\ inflight' = inflight
              /\ chk' = NoCheck]_vars

\* The session monitor's timer has called checkSession after its element
\* was removed from the document.
C11_Witness ==
    /\ calls = <<Call("checkSession", NatToStr(MonitorId), FALSE, FALSE, FALSE)>>
    /\ timers[MonitorId] # Null
    /\ ~dom[MonitorId].present

\* rerenderComp was called for an id with no element.
C11_WitnessRerender ==
    /\ Len(calls) = 1
    /\ calls[1].fn = "rerenderComp"
    /\ ~calls[1].found

\* focusComp was called by a directive for an id with no element.
C11_WitnessFocus ==
    /\ Len(calls) = 1
    /\ calls[1].fn = "focusComp"
    /\ ~calls[1].found
    /\ erPhase = "run"

(***************************************************************************)
(* More claims about the ListBox.                                          *)
(***************************************************************************)
\* C12: ClearSelected is idempotent: after ClearSelected() every selection
\* flag is false, clearing the cleared vector gives the same vector, and a
\* second ClearSelected() right after the first leaves the selection, the
\* values, multi and rows as they are.
C12_ClearSelectedIdempotent ==
    /\ [](/\ ClearSelectedOp(ClearSelectedOp(selected)) = ClearSelectedOp(selected)
          /\ lbLast.op = "ClearSelected" =>
                 /\ ~lbFault
                 /\ selected = AllFalse(Len(values)))
    /\ [][(lbLast.op = "ClearSelected" /\ lbLast'.op = "ClearSelected") =>
              UNCHANGED <<values, multi, selected, rows>>]_vars

\* ClearSelected() has been called on a ListBox with values.
C12_Witness ==
    /\ lbLast.op = "ClearSelected"
    /\ Len(values) = MaxValues
    /\ selected = AllFalse(Len(values))

\* C13: after SetSelectedIndices(indices) with every index in range,
\* Selected(i) is true if and only if i occurs in indices (what was selected
\* before and is not in the slice is deselected), the call does not fault,
\* and values, multi and rows are unchanged.
C13_SetSelectedIndicesExact ==
    /\ []((/\ lbLast.op = "SetSelectedIndices"
           /\ \A k \in 1..Len(lbLast.indices) : InRange(selected, lbLast.indices[k])) =>
              /\ ~lbFault
              /\ \A i \in 0..(Len(values) - 1) :
                     selected[i + 1] <=>
                         \E k \in 1..Len(lbLast.indices) : lbLast.indices[k] = i)
    /\ [][lbLast'.op = "SetSelectedIndices" =>
              UNCHANGED <<values, multi, rows>>]_vars

\* SetSelectedIndices was called with two different indices in range on a
\* ListBox that has a value outside the slice.
C13_Witness ==
    /\ lbLast.op = "SetSelectedIndices"
    /\ Len(lbLast.indices) = 2
    /\ lbLast.indices[1] # lbLast.indices[2]
    /\ \A k \in 1..2 : InRange(selected, lbLast.indices[k])
    /\ Len(values) = 3
    /\ \E i \in 1..3 : ~selected[i]

(***************************************************************************)
(* Claims about the wire format.                                           *)
(***************************************************************************)
\* The ids rerenderComp was called with for directive i (from 0), in order.
RerenderCalls(i) ==
    LET es == SelectSeq(log, LAMBDA en : en.i = i /\ en.kind \in
                                {"rerenderComp", "rerenderCompNoElement"})
    IN  [k \in 1..Len(es) |-> es[k].id]

\* A sequence is the start of another.
IsPrefix(a, b) == Len(a) <= Len(b) /\ a = SubSeq(b, 1, Len(a))

\* C14: MarkDirty(ids) encoded in the wire format and decoded by procEresp
\* gives the same ids in the same order: for every MarkDirty directive of
\* the response, rerenderComp is called with each listed id once, in list
\* order (all of them when procEresp has returned, the first ones before).
C14_MarkDirtyRoundTrip ==
    \A i \in 1..Len(erDirs) :
        erDirs[i][1] = NatToStr(EraDirtyComps) =>
            /\ IsPrefix(RerenderCalls(i - 1), Tail(erDirs[i]))
            /\ erPhase = "done" => RerenderCalls(i - 1) = Tail(erDirs[i])

\* procEresp has returned after the encoding of MarkDirty([3, 7, 9]).
C14_Witness ==
    /\ erPhase = "done"
    /\ erDirs = <<MarkDirty(<<3, 7, 9>>)>>
    /\ RerenderCalls(0) = << <<"3">>, <<"7">>, <<"9">> >>

(***************************************************************************)
(* Claims about the server side.                                           *)
(***************************************************************************)
\* The elements of a sequence.
Range(q) == {q[k] : k \in 1..Len(q)}

\* C15: for every sequence of markDirty(id) calls made between two drains
\* (repetitions and any order included), the drain returns each marked id
\* exactly once and leaves the set empty.
C15_DrainYieldsEachIdOnce ==
    drained.done =>
        /\ Range(drained.ids) = Range(drained.calls)
        /\ \A a, b \in 1..Len(drained.ids) : a # b => drained.ids[a] # drained.ids[b]
        /\ dirty = {}

\* A drain after three markDirty calls, two of them for the same id.
C15_Witness ==
    /\ drained.done
    /\ Len(drained.calls) = 3
    /\ Len(drained.ids) = 2

\* C16: a dispatch whose target id does not resolve to a live component
\* (never allocated, or removed) returns exactly [NoAction] and runs no
\* handler, and its step marks nothing dirty.
C16_NotFoundIsNoAction ==
    /\ []((disp.phase # "none" /\ ~disp.live) =>
              /\ disp.phase = "returned"
              /\ disp.actions = <<NoAction>>
              /\ ~disp.ran)
    /\ [][(disp.phase = "none" /\ disp'.phase # "none" /\ ~disp'.live) =>
              UNCHANGED <<dirty, marks, registry>>]_vars

\* A dispatch against a removed component id has returned, with another
\* component marked dirty and not yet drained.
C16_Witness ==
    /\ disp.phase = "returned"
    /\ disp.target <= allocated
    /\ disp.target \notin registry
    /\ disp.actions = <<NoAction>>
    /\ dirty # {}

(***************************************************************************)
(* Claims about the event submission.                                      *)
(***************************************************************************)
\* The bitmask of the modifier keys held during an event.
HeldMask(event) ==
    (IF event.altKey THEN ModKeyAlt ELSE 0)
        + (IF event.ctrlKey THEN ModKeyCtrl ELSE 0)
        + (IF event.metaKey THEN ModKeyMeta ELSE 0)
        + (IF event.shiftKey THEN ModKeyShift ELSE 0)

\* C17: for every DOM event passed to se(), the modifier-key field of the
\* submission is the bitmask of exactly those of Alt, Ctrl, Meta and Shift
\* that were held (0 when none), for all 16 combinations.
C17_ModKeysIsBitmask ==
    (seData.sent /\ seData.hasModKeys) =>
        seData.modKeys = NatToStr(HeldMask(seEvent))

\* What se() sends instead: the text NaN, whatever keys are held.
C17_ModKeysIsNaN ==
    (seData.sent /\ seData.hasModKeys) => seData.modKeys = StrNaN

(***************************************************************************)
(* Claims about the session monitor over time.                             *)
(***************************************************************************)
\* The monitor shows the expired class with the label "Expired!".
ShowsExpired ==
    /\ dom[MonitorId].present
    /\ dom[MonitorId].expired
    /\ dom[MonitorId].label = StrExpired

\* C18: if the rendered monitor's element stays in the document and from
\* some point on the session's remaining time is negative, then (the timer
\* firing fairly, each check completing) the monitor eventually shows the
\* expired class with the label "Expired!" and keeps showing it.
C18_ExpiredEventuallyShown ==
    <>[](dom[MonitorId].present /\ sessLeft < 0) => <>[]ShowsExpired

\* The monitor's timer has run a check for a session whose time is
\* negative, and the monitor shows it.
C18_Witness ==
    /\ ShowsExpired
    /\ sessLeft < 0
    /\ chk.done
    /\ chk.comp = MonitorId
    /\ chk.secs = sessLeft
    /\ timers[MonitorId] # Null

(***************************************************************************)
(* Claims about one-shot timers.                                           *)
(***************************************************************************)
\* C19: in every reachable state of the timer table, a non-null
\* timers[compId] entry denotes a browser timer that is still pending (so a
\* setupTimer call with the same parameters and active=true after a one-shot
\* timer has fired cannot return with nothing pending).
C19_EntryIsPending ==
    \A c \in Comps :
        timers[c] # Null => \E t \in pending : t.comp = c /\ t.id = timers[c].id

\* What holds of the code: the entry of a repeating timer denotes a pending
\* browser timer, and a call with active=true leaves an entry for its id.
C19_RepeatingEntryIsPending ==
    \A c \in Comps :
        /\ (timers[c] # Null /\ timers[c].repeat) =>
               \E t \in pending : t.comp = c /\ t.id = timers[c].id
        /\ (tmLast[c].called /\ tmLast[c].active) => timers[c] # Null

\* A one-shot timer has fired, and setupTimer was then called again with
\* its parameters and active=true, with no timer pending for the id.
C19_StaleOneShot ==
    \E c \in Comps :
        /\ timers[c] # Null
        /\ ~timers[c].repeat
        /\ LiveTimers(c) = {}
        /\ tmLast[c].called
        /\ tmLast[c].active

(***************************************************************************)
(* Claims about single selection.                                          *)
(***************************************************************************)
\* C20: whenever the multi flag of a ListBox is false, at most one value is
\* selected, after any sequence of SetMulti, SetSelected,
\* SetSelectedIndices, ClearSelected and preprocessEvent calls.
C20_SingleSelection ==
    ~multi => Len(SelectedIndices(selected)) <= 1

====
